---- MODULE Spec2Model ----
(***************************************************************************)
(* Model of pylinked: the SinglyLinked list (single.py) and the Double     *)
(* list (pylinked.py).  Two list objects of one class live on a heap of    *)
(* nodes; every public method is an operator from a heap to an outcome     *)
(* (the heap it leaves, the exception it raises, the value it returns).    *)
(***************************************************************************)
EXTENDS Integers, Sequences, FiniteSets, TLC

\* Bounds of the model.
MaxNodes == 3      \* nodes ever created in one behaviour
MaxExtend == 2     \* longest sequence handed to the constructor or to extend

None == 0
NodeIds == 1..MaxNodes
\* Values are opaque to the lists: the code only ever compares two of them for
\* equality, so two distinct values cover every outcome.
Values == {1, 2}
Lists == {1, 2}                \* the two list objects
Callee == 1                    \* the object the calls are made on; object 2 is
                               \* a second list, left as it was constructed
NonList == 0                   \* an object that is not a list
Classes == {"SinglyLinked", "Double"}
Indexes == (0 - 2)..MaxNodes   \* index arguments, valid and invalid

VARIABLES
  cls,        \* the class of the two list objects
  head,       \* head[l]: first node of list l, or None
  tail,       \* tail[l]: the list's tail reference, or None
  length,     \* length[l]: the list's _length counter
  next_node,  \* next_node[n]: forward link of node n
  last_node,  \* last_node[n]: backward link of node n (Double only)
  value,      \* value[n]: the value held by node n
  alloc,      \* nodes 1..alloc have been created
  raised      \* the exception the last call raised, or "none"

vars == <<cls, head, tail, length, next_node, last_node, value, alloc, raised>>

\* The heap as one record, so that methods compose.
Heap == [head |-> head, tail |-> tail, length |-> length,
         next_node |-> next_node, last_node |-> last_node,
         value |-> value, alloc |-> alloc]

EmptyHeap == [head |-> [l \in Lists |-> None], tail |-> [l \in Lists |-> None],
              length |-> [l \in Lists |-> 0],
              next_node |-> [n \in NodeIds |-> None],
              last_node |-> [n \in NodeIds |-> None],
              value |-> [n \in NodeIds |-> 0], alloc |-> 0]

\* Outcomes of a call.
Ok(h) == [h |-> h, exc |-> "none", ret |-> None]
Return(h, r) == [h |-> h, exc |-> "none", ret |-> r]
Raise(h, e) == [h |-> h, exc |-> e, ret |-> None]

\* A node-or-index argument.
ByNode(n) == [isnode |-> TRUE, v |-> n]
ByIndex(i) == [isnode |-> FALSE, v |-> i]

\* Node(value, link) of single.py: the new node is h.alloc + 1.
NodeS(h, v, link) ==
  [h EXCEPT !.alloc = h.alloc + 1,
            !.value[h.alloc + 1] = v,
            !.next_node[h.alloc + 1] = link]

\* Node(value, last_link, next_link) of pylinked.py.
NodeD(h, v, last_link, next_link) ==
  [h EXCEPT !.alloc = h.alloc + 1,
            !.value[h.alloc + 1] = v,
            !.next_node[h.alloc + 1] = next_link,
            !.last_node[h.alloc + 1] = last_link]

\* __iter__: the nodes from head along next_node.  The walk is cut after
\* MaxNodes + 1 nodes: a longer walk means the chain is cyclic.
RECURSIVE Walk(_, _, _)
Walk(h, node, fuel) ==
  IF node = None \/ fuel = 0 THEN <<>>
  ELSE <<node>> \o Walk(h, h.next_node[node], fuel - 1)

Iter(h, l) == Walk(h, h.head[l], MaxNodes + 1)

\* iter_reverse: the nodes from tail along last_node.
RECURSIVE WalkBack(_, _, _)
WalkBack(h, node, fuel) ==
  IF node = None \/ fuel = 0 THEN <<>>
  ELSE <<node>> \o WalkBack(h, h.last_node[node], fuel - 1)

iter_reverse(h, l) == WalkBack(h, h.tail[l], MaxNodes + 1)

\* iter_values
iter_values(h, l) == [k \in 1..Len(Iter(h, l)) |-> h.value[Iter(h, l)[k]]]

\* __getitem__ (the same code in both classes).
getitem(h, l, index) ==
  IF h.tail[l] # None /\ index = 0 - 1 THEN Return(h, h.tail[l])
  ELSE IF index < 0 - 1 THEN Raise(h, "IndexError")
  ELSE IF index >= 0 /\ index < Len(Iter(h, l))
       THEN Return(h, Iter(h, l)[index + 1])
       ELSE Raise(h, "IndexError")

\* __setitem__ (the same code in both classes).
setitem(h, l, index, v) ==
  IF h.tail[l] # None /\ index = 0 - 1
  THEN Ok([h EXCEPT !.value[h.tail[l]] = v])
  ELSE IF index < 0 - 1 THEN Raise(h, "IndexError")
  ELSE IF index >= 0 /\ index < Len(Iter(h, l))
       THEN Ok([h EXCEPT !.value[Iter(h, l)[index + 1]] = v])
       ELSE Raise(h, "IndexError")

(***************************************************************************)
(* SinglyLinked                                                            *)
(***************************************************************************)

S_append_tail(h, l, v) ==
  LET h1 == NodeS(h, v, None)
      new == h1.alloc
  IN IF h.head[l] = None
     THEN Ok([h1 EXCEPT !.head[l] = new, !.tail[l] = new,
                        !.length[l] = @ + 1])
     ELSE IF h.tail[l] = None THEN Raise(h, "AttributeError")
     ELSE Ok([h1 EXCEPT !.next_node[h.tail[l]] = new, !.tail[l] = new,
                        !.length[l] = @ + 1])

S_append_head(h, l, v) ==
  LET h1 == NodeS(h, v, None)
      new == h1.alloc
  IN IF h.head[l] = None
     THEN Ok([h1 EXCEPT !.head[l] = new, !.tail[l] = new,
                        !.length[l] = @ + 1])
     ELSE Ok([h1 EXCEPT !.next_node[new] = h.head[l], !.head[l] = new,
                        !.length[l] = @ + 1])

\* extend: append_tail for each value in turn; an exception ends the loop.
RECURSIVE S_extend(_, _, _)
S_extend(h, l, vs) ==
  IF vs = <<>> THEN Ok(h)
  ELSE LET r == S_append_tail(h, l, Head(vs))
       IN IF r.exc # "none" THEN r ELSE S_extend(r.h, l, Tail(vs))

\* S_insert_after with the new node created as Node(value): its link is lost.
S_insert_after_nolink(h, l, node_or_index, v) ==
  LET r == IF node_or_index.isnode THEN Return(h, node_or_index.v)
           ELSE getitem(h, l, node_or_index.v)
      node == r.ret
      h1 == NodeS(h, v, None)
  IN IF r.exc # "none" THEN r
     ELSE Ok([h1 EXCEPT !.next_node[node] = h1.alloc, !.length[l] = @ + 1])

S_insert_after(h, l, node_or_index, v) ==
  LET r == IF node_or_index.isnode THEN Return(h, node_or_index.v)
           ELSE getitem(h, l, node_or_index.v)
      node == r.ret
      h1 == NodeS(h, v, h.next_node[node])
  IN IF r.exc # "none" THEN r
     ELSE Ok([h1 EXCEPT !.next_node[node] = h1.alloc, !.length[l] = @ + 1])

\* The predecessors of node n on the walk from head.
Preds(h, l, n) == {k \in 1..Len(Iter(h, l)) : h.next_node[Iter(h, l)[k]] = n}
FirstPred(h, l, n) ==
  Iter(h, l)[CHOOSE k \in Preds(h, l, n) : \A j \in Preds(h, l, n) : k <= j]

\* S_remove_by_node without the loop's else clause: a node that is not found
\* is passed over in silence.
S_remove_by_node_noraise(h, l, node_to_remove) ==
  IF node_to_remove = h.head[l]
  THEN LET node == h.next_node[h.head[l]]
           h1 == [h EXCEPT !.head[l] = node]
       IN Ok(IF node_to_remove = h1.tail[l]
             THEN [h1 EXCEPT !.tail[l] = node] ELSE h1)
  ELSE IF Preds(h, l, node_to_remove) = {} THEN Ok(h)
  ELSE LET node == FirstPred(h, l, node_to_remove)
           h1 == [h EXCEPT !.next_node[node] = h.next_node[node_to_remove]]
       IN Ok(IF node_to_remove = h1.tail[l]
             THEN [h1 EXCEPT !.tail[l] = node] ELSE h1)

\* _remove_by_node: unlink the node and move the tail reference off it.
S_remove_by_node(h, l, node_to_remove) ==
  IF node_to_remove = h.head[l]
  THEN LET node == h.next_node[h.head[l]]
           h1 == [h EXCEPT !.head[l] = node]
       IN Ok(IF node_to_remove = h1.tail[l]
             THEN [h1 EXCEPT !.tail[l] = node] ELSE h1)
  ELSE IF Preds(h, l, node_to_remove) = {} THEN Raise(h, "ValueError")
  ELSE LET node == FirstPred(h, l, node_to_remove)
           h1 == [h EXCEPT !.next_node[node] = h.next_node[node_to_remove]]
       IN Ok(IF node_to_remove = h1.tail[l]
             THEN [h1 EXCEPT !.tail[l] = node] ELSE h1)

\* S_remove_by_index without the closing "if index == highest_index" fix-up.
S_remove_by_index_notail(h, l, index0) ==
  LET highest_index == h.length[l] - 1
      index == IF index0 = 0 - 1 THEN highest_index ELSE index0
  IN IF index = 0
     THEN IF h.head[l] = None THEN Raise(h, "AttributeError")
          ELSE Ok([h EXCEPT !.head[l] = h.next_node[h.head[l]]])
     ELSE IF index <= highest_index
     THEN LET r == getitem(h, l, index - 1)
              node == r.ret
          IN IF r.exc # "none" THEN r
             ELSE IF h.next_node[node] = None THEN Raise(h, "AttributeError")
             ELSE Ok([h EXCEPT !.next_node[node] =
                                  h.next_node[h.next_node[node]]])
     ELSE Raise(h, "IndexError")

S_remove_by_index(h, l, index0) ==
  LET highest_index == h.length[l] - 1
      index == IF index0 = 0 - 1 THEN highest_index ELSE index0
  IN IF index = 0
     THEN IF h.head[l] = None THEN Raise(h, "AttributeError")
          ELSE LET node == h.next_node[h.head[l]]
                   h1 == [h EXCEPT !.head[l] = node]
               IN Ok(IF index = highest_index
                     THEN [h1 EXCEPT !.tail[l] = node] ELSE h1)
     ELSE IF index <= highest_index
     THEN LET r == getitem(h, l, index - 1)
              node == r.ret
          IN IF r.exc # "none" THEN r
             ELSE IF h.next_node[node] = None THEN Raise(h, "AttributeError")
             ELSE LET h1 == [h EXCEPT !.next_node[node] =
                                         h.next_node[h.next_node[node]]]
                  IN Ok(IF index = highest_index
                        THEN [h1 EXCEPT !.tail[l] = node] ELSE h1)
     ELSE Raise(h, "IndexError")

S_remove(h, l, node_or_index) ==
  LET r == IF node_or_index.isnode
           THEN S_remove_by_node(h, l, node_or_index.v)
           ELSE S_remove_by_index(h, l, node_or_index.v)
  IN IF r.exc # "none" THEN r
     ELSE Ok([r.h EXCEPT !.length[l] = @ - 1])

\* SinglyLinked defines no __eq__: == is object identity.
S_eq(h, l, other) == Return(h, IF other = l THEN 1 ELSE 0)

(***************************************************************************)
(* Double                                                                  *)
(***************************************************************************)

\* D_append_tail that leaves the new node's last_node unset.
D_append_tail_noback(h, l, v) ==
  LET h1 == NodeD(h, v, None, None)
      new == h1.alloc
  IN IF h.head[l] = None
     THEN Ok([h1 EXCEPT !.head[l] = new, !.tail[l] = new,
                        !.length[l] = @ + 1])
     ELSE IF h.tail[l] = None THEN Raise(h, "AttributeError")
     ELSE Ok([h1 EXCEPT !.next_node[h.tail[l]] = new,
                        !.tail[l] = new, !.length[l] = @ + 1])

D_append_tail(h, l, v) ==
  LET h1 == NodeD(h, v, None, None)
      new == h1.alloc
  IN IF h.head[l] = None
     THEN Ok([h1 EXCEPT !.head[l] = new, !.tail[l] = new,
                        !.length[l] = @ + 1])
     ELSE IF h.tail[l] = None THEN Raise(h, "AttributeError")
     ELSE Ok([h1 EXCEPT !.next_node[h.tail[l]] = new,
                        !.last_node[new] = h.tail[l],
                        !.tail[l] = new, !.length[l] = @ + 1])

\* D_append_head without "self.head.last_node = new_node".
D_append_head_noback(h, l, v) ==
  LET h1 == NodeD(h, v, None, None)
      new == h1.alloc
  IN IF h.head[l] = None
     THEN Ok([h1 EXCEPT !.head[l] = new, !.tail[l] = new,
                        !.length[l] = @ + 1])
     ELSE Ok([h1 EXCEPT !.next_node[new] = h.head[l],
                        !.head[l] = new, !.length[l] = @ + 1])

D_append_head(h, l, v) ==
  LET h1 == NodeD(h, v, None, None)
      new == h1.alloc
  IN IF h.head[l] = None
     THEN Ok([h1 EXCEPT !.head[l] = new, !.tail[l] = new,
                        !.length[l] = @ + 1])
     ELSE Ok([h1 EXCEPT !.last_node[h.head[l]] = new,
                        !.next_node[new] = h.head[l],
                        !.head[l] = new, !.length[l] = @ + 1])

RECURSIVE D_extend(_, _, _)
D_extend(h, l, vs) ==
  IF vs = <<>> THEN Ok(h)
  ELSE LET r == D_append_tail(h, l, Head(vs))
       IN IF r.exc # "none" THEN r ELSE D_extend(r.h, l, Tail(vs))

\* D_insert_after creating the node with "Node(value, node, node)".
D_insert_after_loop(h, l, after, v) ==
  LET r == IF after.isnode THEN Return(h, after.v) ELSE getitem(h, l, after.v)
      node == r.ret
      h1 == NodeD(h, v, node, node)
      new == h1.alloc
  IN IF r.exc # "none" THEN r
     ELSE IF node # h.tail[l] /\ h.next_node[node] = None
     THEN Raise(h, "AttributeError")
     ELSE LET h2 == IF node = h.tail[l] THEN [h1 EXCEPT !.tail[l] = new]
                    ELSE [h1 EXCEPT !.last_node[h.next_node[node]] = new]
          IN Ok([h2 EXCEPT !.next_node[node] = new, !.length[l] = @ + 1])

D_insert_after(h, l, after, v) ==
  LET r == IF after.isnode THEN Return(h, after.v) ELSE getitem(h, l, after.v)
      node == r.ret
      h1 == NodeD(h, v, node, h.next_node[node])
      new == h1.alloc
  IN IF r.exc # "none" THEN r
     ELSE IF node # h.tail[l] /\ h.next_node[node] = None
     THEN Raise(h, "AttributeError")
     ELSE LET h2 == IF node = h.tail[l] THEN [h1 EXCEPT !.tail[l] = new]
                    ELSE [h1 EXCEPT !.last_node[h.next_node[node]] = new]
          IN Ok([h2 EXCEPT !.next_node[node] = new, !.length[l] = @ + 1])

\* D_insert_before without "self.head = new_node".
D_insert_before_nohead(h, l, before, v) ==
  LET r == IF before.isnode THEN Return(h, before.v)
           ELSE getitem(h, l, before.v)
      node == r.ret
      h1 == NodeD(h, v, h.last_node[node], node)
      new == h1.alloc
  IN IF r.exc # "none" THEN r
     ELSE IF node # h.head[l] /\ h.last_node[node] = None
     THEN Raise(h, "AttributeError")
     ELSE LET h2 == IF node = h.head[l] THEN h1
                    ELSE [h1 EXCEPT !.next_node[h.last_node[node]] = new]
          IN Ok([h2 EXCEPT !.last_node[node] = new, !.length[l] = @ + 1])

D_insert_before(h, l, before, v) ==
  LET r == IF before.isnode THEN Return(h, before.v)
           ELSE getitem(h, l, before.v)
      node == r.ret
      h1 == NodeD(h, v, h.last_node[node], node)
      new == h1.alloc
  IN IF r.exc # "none" THEN r
     ELSE IF node # h.head[l] /\ h.last_node[node] = None
     THEN Raise(h, "AttributeError")
     ELSE LET h2 == IF node = h.head[l] THEN [h1 EXCEPT !.head[l] = new]
                    ELSE [h1 EXCEPT !.next_node[h.last_node[node]] = new]
          IN Ok([h2 EXCEPT !.last_node[node] = new, !.length[l] = @ + 1])

\* remove, first half: take the node out of the forward chain.
D_unlink_forward(h, l, node) ==
  IF node # h.head[l]
  THEN IF h.last_node[node] = None THEN Raise(h, "AttributeError")
       ELSE Ok([h EXCEPT !.next_node[h.last_node[node]] = h.next_node[node]])
  ELSE Ok([h EXCEPT !.head[l] = h.next_node[node]])

\* remove, second half: take the node out of the backward chain.
D_unlink_backward(h, l, node) ==
  IF node # h.tail[l]
  THEN IF h.next_node[node] = None THEN Raise(h, "AttributeError")
       ELSE Ok([h EXCEPT !.last_node[h.next_node[node]] = h.last_node[node]])
  ELSE Ok([h EXCEPT !.tail[l] = h.last_node[node]])

\* D_remove without "self._length -= 1".
D_remove_nolen(h, l, to_remove) ==
  LET r == IF to_remove.isnode THEN Return(h, to_remove.v)
           ELSE getitem(h, l, to_remove.v)
      node == r.ret
      f == D_unlink_forward(h, l, node)
      b == D_unlink_backward(f.h, l, node)
  IN IF r.exc # "none" THEN r
     ELSE IF f.exc # "none" THEN f
     ELSE IF b.exc # "none" THEN b
     ELSE Ok(b.h)

D_remove(h, l, to_remove) ==
  LET r == IF to_remove.isnode THEN Return(h, to_remove.v)
           ELSE getitem(h, l, to_remove.v)
      node == r.ret
      f == D_unlink_forward(h, l, node)
      b == D_unlink_backward(f.h, l, node)
  IN IF r.exc # "none" THEN r
     ELSE IF f.exc # "none" THEN f
     ELSE IF b.exc # "none" THEN b
     ELSE Ok([b.h EXCEPT !.length[l] = @ - 1])

\* __eq__: the loop over both chains; fuel 0 stands for a loop that does not end.
RECURSIVE D_eq_loop(_, _, _, _, _, _)
D_eq_loop(h, l, other, node, other_node, fuel) ==
  IF fuel = 0 THEN Raise(h, "NoReturn")
  ELSE IF node = None \/ other_node = None THEN Raise(h, "AttributeError")
  ELSE IF h.value[node] # h.value[other_node] THEN Return(h, 0)
  ELSE IF node = h.tail[l] /\ other_node = h.tail[other] THEN Return(h, 1)
  ELSE IF h.next_node[node] = None \/ h.next_node[other_node] = None
       THEN Return(h, 0)
  ELSE D_eq_loop(h, l, other, h.next_node[node], h.next_node[other_node],
                 fuel - 1)

\* __eq__: ret 1 is True, ret 0 is False.
D_eq(h, l, other) ==
  IF other = NonList THEN Return(h, 0)
  ELSE D_eq_loop(h, l, other, h.head[l], h.head[other], MaxNodes + 1)

(***************************************************************************)
(* The state machine: one action per public method of each class.         *)
(***************************************************************************)

\* The sequences of at most k values.
ValueSeqs(k) == UNION {[1..n -> Values] : n \in 0..k}

\* The nodes a caller can hold: every node created so far.
Allocated == 1..alloc

\* The nodes of list l: those the walk from head reaches.
NodesOf(h, l) == {Iter(h, l)[k] : k \in 1..Len(Iter(h, l))}

\* A call's outcome becomes the next state.
Becomes(r) ==
  /\ head' = r.h.head
  /\ tail' = r.h.tail
  /\ length' = r.h.length
  /\ next_node' = r.h.next_node
  /\ last_node' = r.h.last_node
  /\ value' = r.h.value
  /\ alloc' = r.h.alloc
  /\ raised' = r.exc
  /\ UNCHANGED cls

\* __init__: both objects are constructed from a sequence of values.
Init ==
  /\ cls \in Classes
  /\ \E va \in ValueSeqs(MaxNodes), vb \in ValueSeqs(MaxExtend) :
       /\ Len(va) + Len(vb) <= MaxNodes
       /\ LET h == IF cls = "SinglyLinked"
                   THEN S_extend(S_extend(EmptyHeap, 1, va).h, 2, vb).h
                   ELSE D_extend(D_extend(EmptyHeap, 1, va).h, 2, vb).h
          IN /\ head = h.head
             /\ tail = h.tail
             /\ length = h.length
             /\ next_node = h.next_node
             /\ last_node = h.last_node
             /\ value = h.value
             /\ alloc = h.alloc
  /\ raised = "none"

Call_S_append_tail ==
  /\ cls = "SinglyLinked" /\ alloc < MaxNodes
  /\ \E v \in Values :
       Becomes(S_append_tail(Heap, Callee, v))

Call_S_append_head ==
  /\ cls = "SinglyLinked" /\ alloc < MaxNodes
  /\ \E v \in Values :
       Becomes(S_append_head(Heap, Callee, v))

Call_S_extend ==
  /\ cls = "SinglyLinked"
  /\ \E vs \in ValueSeqs(MaxExtend) :
       /\ alloc + Len(vs) <= MaxNodes
       /\ Becomes(S_extend(Heap, Callee, vs))

Call_S_insert_after_node ==
  /\ cls = "SinglyLinked" /\ alloc < MaxNodes
  /\ \E v \in Values : \E n \in NodesOf(Heap, Callee) :
       Becomes(S_insert_after(Heap, Callee, ByNode(n), v))

Call_S_insert_after_index ==
  /\ cls = "SinglyLinked" /\ alloc < MaxNodes
  /\ \E v \in Values, i \in Indexes :
       Becomes(S_insert_after(Heap, Callee, ByIndex(i), v))

Call_S_remove_node ==
  /\ cls = "SinglyLinked"
  /\ \E n \in Allocated :
       Becomes(S_remove(Heap, Callee, ByNode(n)))

Call_S_remove_index ==
  /\ cls = "SinglyLinked"
  /\ \E i \in Indexes :
       Becomes(S_remove(Heap, Callee, ByIndex(i)))

Call_S_getitem ==
  /\ cls = "SinglyLinked"
  /\ \E i \in Indexes :
       Becomes(getitem(Heap, Callee, i))

Call_S_setitem ==
  /\ cls = "SinglyLinked"
  /\ \E i \in Indexes, v \in Values :
       Becomes(setitem(Heap, Callee, i, v))

Call_S_eq ==
  /\ cls = "SinglyLinked"
  /\ \E l \in Lists, other \in Lists \cup {NonList} :
       Becomes(S_eq(Heap, l, other))

Call_D_append_tail ==
  /\ cls = "Double" /\ alloc < MaxNodes
  /\ \E v \in Values :
       Becomes(D_append_tail(Heap, Callee, v))

Call_D_append_head ==
  /\ cls = "Double" /\ alloc < MaxNodes
  /\ \E v \in Values :
       Becomes(D_append_head(Heap, Callee, v))

Call_D_extend ==
  /\ cls = "Double"
  /\ \E vs \in ValueSeqs(MaxExtend) :
       /\ alloc + Len(vs) <= MaxNodes
       /\ Becomes(D_extend(Heap, Callee, vs))

Call_D_insert_after_node ==
  /\ cls = "Double" /\ alloc < MaxNodes
  /\ \E v \in Values : \E n \in NodesOf(Heap, Callee) :
       Becomes(D_insert_after(Heap, Callee, ByNode(n), v))

Call_D_insert_after_index ==
  /\ cls = "Double" /\ alloc < MaxNodes
  /\ \E v \in Values, i \in Indexes :
       Becomes(D_insert_after(Heap, Callee, ByIndex(i), v))

Call_D_insert_before_node ==
  /\ cls = "Double" /\ alloc < MaxNodes
  /\ \E v \in Values : \E n \in NodesOf(Heap, Callee) :
       Becomes(D_insert_before(Heap, Callee, ByNode(n), v))

Call_D_insert_before_index ==
  /\ cls = "Double" /\ alloc < MaxNodes
  /\ \E v \in Values, i \in Indexes :
       Becomes(D_insert_before(Heap, Callee, ByIndex(i), v))

Call_D_remove_node ==
  /\ cls = "Double"
  /\ \E n \in NodesOf(Heap, Callee) :
       Becomes(D_remove(Heap, Callee, ByNode(n)))

Call_D_remove_index ==
  /\ cls = "Double"
  /\ \E i \in Indexes :
       Becomes(D_remove(Heap, Callee, ByIndex(i)))

Call_D_getitem ==
  /\ cls = "Double"
  /\ \E i \in Indexes :
       Becomes(getitem(Heap, Callee, i))

Call_D_setitem ==
  /\ cls = "Double"
  /\ \E i \in Indexes, v \in Values :
       Becomes(setitem(Heap, Callee, i, v))

Call_D_eq ==
  /\ cls = "Double"
  /\ \E l \in Lists, other \in Lists \cup {NonList} :
       Becomes(D_eq(Heap, l, other))

\* Calls handed a node that is not in the list: one removed earlier, or a node
\* of the other list.  SinglyLinked.remove of such a node is part of Next.
Call_S_insert_after_stray ==
  /\ cls = "SinglyLinked" /\ alloc < MaxNodes
  /\ \E v \in Values : \E n \in Allocated \ NodesOf(Heap, Callee) :
       Becomes(S_insert_after(Heap, Callee, ByNode(n), v))

Call_D_insert_after_stray ==
  /\ cls = "Double" /\ alloc < MaxNodes
  /\ \E v \in Values : \E n \in Allocated \ NodesOf(Heap, Callee) :
       Becomes(D_insert_after(Heap, Callee, ByNode(n), v))

Call_D_insert_before_stray ==
  /\ cls = "Double" /\ alloc < MaxNodes
  /\ \E v \in Values : \E n \in Allocated \ NodesOf(Heap, Callee) :
       Becomes(D_insert_before(Heap, Callee, ByNode(n), v))

Call_D_remove_stray ==
  /\ cls = "Double" /\ length[Callee] > 0
  /\ \E n \in Allocated \ NodesOf(Heap, Callee) :
       Becomes(D_remove(Heap, Callee, ByNode(n)))

\* Every call with a node of the list or with any index.
Next ==
  \/ Call_S_append_tail \/ Call_S_append_head \/ Call_S_extend
  \/ Call_S_insert_after_node \/ Call_S_insert_after_index
  \/ Call_S_remove_node \/ Call_S_remove_index
  \/ Call_S_getitem \/ Call_S_setitem \/ Call_S_eq
  \/ Call_D_append_tail \/ Call_D_append_head \/ Call_D_extend
  \/ Call_D_insert_after_node \/ Call_D_insert_after_index
  \/ Call_D_insert_before_node \/ Call_D_insert_before_index
  \/ Call_D_remove_node \/ Call_D_remove_index
  \/ Call_D_getitem \/ Call_D_setitem \/ Call_D_eq

Spec == Init /\ [][Next]_vars

\* Every call, stray node references included.
NextAny ==
  \/ Next
  \/ Call_S_insert_after_stray \/ Call_D_insert_after_stray
  \/ Call_D_insert_before_stray \/ Call_D_remove_stray

SpecAny == Init /\ [][NextAny]_vars

\* Lists as the constructor leaves them, with remove(index) the only call.
NextBuilt == Call_S_remove_index \/ Call_D_remove_index

SpecBuilt == Init /\ [][NextBuilt]_vars

(***************************************************************************)
(* Properties                                                              *)
(***************************************************************************)

\* The methods of the class the objects have.
InsertAfter(h, l, x, v) ==
  IF cls = "SinglyLinked" THEN S_insert_after(h, l, x, v)
  ELSE D_insert_after(h, l, x, v)

Remove(h, l, x) ==
  IF cls = "SinglyLinked" THEN S_remove(h, l, x) ELSE D_remove(h, l, x)

\* Sequence s without its k-th element.
Without(s, k) == [j \in 1..(Len(s) - 1) |-> IF j < k THEN s[j] ELSE s[j + 1]]

\* Same length and pairwise-equal values in traversal order.
SameValues(h, a, b) ==
  /\ h.length[a] = h.length[b]
  /\ iter_values(h, a) = iter_values(h, b)

\* C1: in a SinglyLinked list, len(list) is the number of nodes the forward
\* traversal from head reaches.
C1_LengthIsTraversalCount ==
  cls = "SinglyLinked" =>
    \A l \in Lists : length[l] = Len(Iter(Heap, l))

\* C2: on every non-empty list, get(-1) returns what get(length - 1) returns.
C2_MinusOneIsLast ==
  \A l \in Lists :
    head[l] # None => getitem(Heap, l, 0 - 1) = getitem(Heap, l, length[l] - 1)

\* C3: two SinglyLinked lists compare equal iff they have the same length and
\* pairwise-equal values in traversal order, and a list never equals a
\* non-list.
C3_SinglyEquality ==
  cls = "SinglyLinked" =>
    /\ \A a, b \in Lists :
         S_eq(Heap, a, b) =
           Return(Heap, IF SameValues(Heap, a, b) THEN 1 ELSE 0)
    /\ \A a \in Lists : S_eq(Heap, a, NonList) = Return(Heap, 0)

\* C4: two Double lists, empty ones included, compare equal iff they have the
\* same length and pairwise-equal values in traversal order; the comparison
\* never raises.
C4_DoubleEquality ==
  cls = "Double" =>
    \A a, b \in Lists :
      D_eq(Heap, a, b) = Return(Heap, IF SameValues(Heap, a, b) THEN 1 ELSE 0)

\* C5: a call that raises leaves head, tail, length and every node's links and
\* value as they were.
C5_FailureAtomicity ==
  [][raised' # "none" =>
       UNCHANGED <<head, tail, length, next_node, last_node, value>>]_vars

\* C6: remove(index) raises IndexError for every index < -1 and every
\* index >= len(list), remove(0) on an empty list included.
C6_RemoveIndexOutOfRange ==
  \A l \in Lists, i \in Indexes :
    (i < 0 - 1 \/ i >= length[l]) =>
      Remove(Heap, l, ByIndex(i)).exc = "IndexError"

\* C7: SinglyLinked.remove(node) of a node that head does not reach raises
\* ValueError and leaves the length as it was.
C7_RemoveUnreachableNode ==
  cls = "SinglyLinked" =>
    \A l \in Lists : \A n \in Allocated \ NodesOf(Heap, l) :
      /\ S_remove(Heap, l, ByNode(n)).exc = "ValueError"
      /\ S_remove(Heap, l, ByNode(n)).h.length[l] = length[l]

\* A remove(node) has just raised ValueError.
C7_Witness == cls = "SinglyLinked" /\ raised = "ValueError"

\* C8: insert_after(n, x) on a node n of the list, then remove of the node
\* just created, leaves the values in traversal order as they were.
C8_InsertRemoveRoundTrip ==
  alloc < MaxNodes =>
    \A l \in Lists, v \in Values : \A n \in NodesOf(Heap, l) :
      LET ins == InsertAfter(Heap, l, ByNode(n), v)
          rem == Remove(ins.h, l, ByNode(ins.h.alloc))
      IN /\ ins.exc = "none"
         /\ rem.exc = "none"
         /\ iter_values(rem.h, l) = iter_values(Heap, l)

\* The newest node was inserted after a node n of the list and then removed:
\* it is out of both lists and still holds the links the insertion gave it.
C8_Witness ==
  /\ raised = "none"
  /\ alloc \in NodeIds
  /\ \A l \in Lists : alloc \notin NodesOf(Heap, l)
  /\ \E n \in NodesOf(Heap, Callee) :
       /\ next_node[alloc] = next_node[n]
       /\ next_node[n] # None
       /\ cls = "Double" => last_node[alloc] = n

\* C9: on a list built from n values, remove(i) for a valid index i (-1
\* standing for n - 1) leaves the other nodes in their order with their
\* values, length n - 1, and head and tail on the new first and last node
\* (both None when the list becomes empty).
C9_RemoveIndexResult ==
  \A l \in Lists, i \in Indexes :
    LET nodes == Iter(Heap, l)
        n == Len(nodes)
        k == IF i = 0 - 1 THEN n ELSE i + 1
        r == Remove(Heap, l, ByIndex(i))
        left == Without(nodes, k)
    IN ((0 <= i /\ i < n) \/ (i = 0 - 1 /\ n >= 1)) =>
         /\ r.exc = "none"
         /\ Iter(r.h, l) = left
         /\ r.h.value = value
         /\ r.h.length[l] = n - 1
         /\ r.h.head[l] = IF left = <<>> THEN None ELSE left[1]
         /\ r.h.tail[l] = IF left = <<>> THEN None ELSE left[Len(left)]

\* remove(1) has taken the middle node out of a list built from three values.
C9_Witness ==
  /\ raised = "none"
  /\ alloc = 3
  /\ Iter(Heap, Callee) = <<1, 3>>
  /\ length[Callee] = 2
  /\ head[Callee] = 1 /\ tail[Callee] = 3

\* C10: get(i) returns the i-th node of the forward traversal for
\* 0 <= i < length and the last node for i = -1 on a non-empty list; it
\* raises IndexError for i < -1, for i >= length and for i = -1 on an empty
\* list.
C10_IndexedAccess ==
  \A l \in Lists, i \in Indexes :
    LET nodes == Iter(Heap, l)
        r == getitem(Heap, l, i)
    IN /\ (0 <= i /\ i < length[l]) =>
            /\ i < Len(nodes)
            /\ r = Return(Heap, nodes[i + 1])
       /\ (i = 0 - 1 /\ length[l] > 0) =>
            /\ nodes # <<>>
            /\ r = Return(Heap, nodes[Len(nodes)])
       /\ (i < 0 - 1 \/ i >= length[l] \/ (i = 0 - 1 /\ length[l] = 0)) =>
            r.exc = "IndexError"

\* Sequence s with x put right after its k-th element.
WithAfter(s, k, x) ==
  [j \in 1..(Len(s) + 1) |->
     IF j <= k THEN s[j] ELSE IF j = k + 1 THEN x ELSE s[j - 1]]

\* insert_after(target) put the new node right after the k-th node of list l.
PlacedAfter(r, l, k, v) ==
  /\ r.exc = "none"
  /\ Iter(r.h, l) = WithAfter(Iter(Heap, l), k, alloc + 1)
  /\ r.h.value = [value EXCEPT ![alloc + 1] = v]
  /\ r.h.length[l] = length[l] + 1

\* C11: insert_after(target, value), target a node of the list or an index i
\* with 0 <= i < length, puts the new node right after the target (at
\* position i + 1), keeps the other nodes in their order and adds 1 to the
\* length.
C11_InsertAfterPlacement ==
  \A l \in Lists, v \in Values :
    /\ \A k \in 1..Len(Iter(Heap, l)) :
         alloc < MaxNodes =>
           PlacedAfter(InsertAfter(Heap, l, ByNode(Iter(Heap, l)[k]), v),
                       l, k, v)
    /\ \A i \in Indexes :
         (0 <= i /\ i < length[l]) =>
           /\ getitem(Heap, l, i).exc = "none"
           /\ alloc < MaxNodes =>
                PlacedAfter(InsertAfter(Heap, l, ByIndex(i), v), l, i + 1, v)

\* Sequence s with x put right before its k-th element.
WithBefore(s, k, x) == WithAfter(s, k - 1, x)

\* C12: Double.insert_before(target, value), target a node of the list or a
\* valid index, puts the new node right before the target, makes it the head
\* when the target was the head, keeps the other nodes in their order and
\* adds 1 to the length.
C12_InsertBeforePlacement ==
  (cls = "Double" /\ alloc < MaxNodes) =>
    \A l \in Lists, v \in Values : \A k \in 1..Len(Iter(Heap, l)) :
      \A x \in {ByNode(Iter(Heap, l)[k]), ByIndex(k - 1)}
             \cup (IF k = Len(Iter(Heap, l)) THEN {ByIndex(0 - 1)} ELSE {}) :
        LET r == D_insert_before(Heap, l, x, v)
            nodes == WithBefore(Iter(Heap, l), k, alloc + 1)
        IN /\ r.exc = "none"
           /\ Iter(r.h, l) = nodes
           /\ r.h.head[l] = nodes[1]
           /\ r.h.value = [value EXCEPT ![alloc + 1] = v]
           /\ r.h.length[l] = length[l] + 1

\* A node has been put before the second node of a two-node Double list.
C12_Witness ==
  /\ cls = "Double" /\ raised = "none"
  /\ Iter(Heap, Callee) = <<1, 3, 2>>
  /\ last_node[2] = 3 /\ last_node[3] = 1
  /\ length[Callee] = 3

\* Sequence s back to front.
Reversed(s) == [j \in 1..Len(s) |-> s[Len(s) + 1 - j]]

\* The values of the nodes iter_reverse yields.
reverse_values(h, l) ==
  [k \in 1..Len(iter_reverse(h, l)) |-> h.value[iter_reverse(h, l)[k]]]

\* __init__ of both objects: list 1 from va, list 2 from vb.
Constructed(va, vb) ==
  IF cls = "SinglyLinked"
  THEN S_extend(S_extend(EmptyHeap, 1, va).h, 2, vb).h
  ELSE D_extend(D_extend(EmptyHeap, 1, va).h, 2, vb).h

\* List l yields the values vs forwards (and, Double, backwards) and has
\* length Len(vs).
Yields(l, vs) ==
  /\ iter_values(Heap, l) = vs
  /\ length[l] = Len(vs)
  /\ cls = "Double" => reverse_values(Heap, l) = Reversed(vs)

\* C13: a list constructed from [v1..vn] (n = 0 included) yields [v1..vn] from
\* forward value iteration and has length n; a Double yields [vn..v1] from
\* iter_reverse.
C13_ConstructionRoundTrip ==
  \A va \in ValueSeqs(MaxNodes), vb \in ValueSeqs(MaxExtend) :
    (Len(va) + Len(vb) <= MaxNodes /\ Heap = Constructed(va, vb)) =>
      Yields(1, va) /\ Yields(2, vb)

\* A Double just constructed from three values, the last unlike the first.
C13_Witness ==
  /\ raised = "none" /\ cls = "Double"
  /\ Heap = Constructed(<<1, 1, 2>>, <<>>)
  /\ reverse_values(Heap, Callee) = <<2, 1, 1>>

\* C14: in a Double list, len(list) is the number of nodes the forward
\* traversal from head reaches and the number the reverse traversal from tail
\* reaches.
C14_DoubleLengthIsTraversalCount ==
  cls = "Double" =>
    \A l \in Lists :
      /\ length[l] = Len(Iter(Heap, l))
      /\ length[l] = Len(iter_reverse(Heap, l))

\* Three nodes were added to a Double list and two of them removed.
C14_Witness ==
  /\ cls = "Double" /\ raised = "none"
  /\ alloc = 3 /\ head[2] = None
  /\ Iter(Heap, Callee) = <<2>>
  /\ length[Callee] = 1

\* The last node of a non-empty sequence of nodes.
LastOf(s) == s[Len(s)]

\* C15: in every non-empty SinglyLinked list, tail is the last node of the
\* forward traversal from head, and it is the only node of that traversal
\* whose next link is absent.
C15_SinglyTailInvariant ==
  cls = "SinglyLinked" =>
    \A l \in Lists :
      Iter(Heap, l) # <<>> =>
        /\ tail[l] = LastOf(Iter(Heap, l))
        /\ \A k \in 1..Len(Iter(Heap, l)) :
             next_node[Iter(Heap, l)[k]] = None <=> Iter(Heap, l)[k] = tail[l]

\* C16: in a Double list, every node of the forward traversal but the first
\* has the node before it as its previous link (and that node has it as its
\* next link), the head has no previous link, the tail has no next link, and
\* the tail is the last node of the forward traversal.
C16_DoubleBackLinks ==
  cls = "Double" =>
    \A l \in Lists :
      LET s == Iter(Heap, l)
      IN /\ \A k \in 1..(Len(s) - 1) :
              next_node[s[k]] = s[k + 1] /\ last_node[s[k + 1]] = s[k]
         /\ s # <<>> =>
              /\ last_node[head[l]] = None
              /\ next_node[tail[l]] = None
              /\ tail[l] = LastOf(s)

\* A Double list whose three nodes were all put in front of the first one.
C16_Witness ==
  /\ cls = "Double" /\ raised = "none"
  /\ Iter(Heap, Callee) = <<3, 2, 1>>
  /\ iter_reverse(Heap, Callee) = <<1, 2, 3>>
  /\ length[Callee] = 3

\* C17: in every state of either list, head is absent iff tail is absent iff
\* the length is 0.
C17_HeadTailEmptiness ==
  \A l \in Lists :
    /\ head[l] = None <=> tail[l] = None
    /\ tail[l] = None <=> length[l] = 0

\* Node n is not referenced by list l: it is neither head nor tail, and
\* neither traversal reaches it.
Detached(h, l, n) ==
  /\ h.head[l] # n
  /\ h.tail[l] # n
  /\ \A k \in 1..Len(Iter(h, l)) : Iter(h, l)[k] # n
  /\ cls = "Double" =>
       \A k \in 1..Len(iter_reverse(h, l)) : iter_reverse(h, l)[k] # n

\* C18: after a successful remove of a node of the list, given by reference
\* or by a valid index, the removed node is neither head nor tail of the list
\* and no traversal of the list reaches it.
C18_RemovedNodeDetached ==
  \A l \in Lists :
    LET nodes == Iter(Heap, l)
    IN /\ \A k \in 1..Len(nodes) :
            Remove(Heap, l, ByNode(nodes[k])).exc = "none" =>
              Detached(Remove(Heap, l, ByNode(nodes[k])).h, l, nodes[k])
       /\ \A k \in 1..Len(nodes) :
            \A i \in {k - 1} \cup (IF k = Len(nodes) THEN {0 - 1} ELSE {}) :
              Remove(Heap, l, ByIndex(i)).exc = "none" =>
                Detached(Remove(Heap, l, ByIndex(i)).h, l, nodes[k])

\* No node occurs twice in s.
NoRepeat(s) == \A j, k \in 1..Len(s) : s[j] = s[k] => j = k

\* C19: the next-chain from head visits no node twice and ends in an absent
\* link after at most as many nodes as were ever created, so the forward
\* traversal (and every index lookup, which is built on it) terminates;
\* likewise the previous-chain from tail of a Double list.
C19_TraversalTerminates ==
  \A l \in Lists :
    /\ NoRepeat(Iter(Heap, l))
    /\ Len(Iter(Heap, l)) <= alloc
    /\ cls = "Double" =>
         /\ NoRepeat(iter_reverse(Heap, l))
         /\ Len(iter_reverse(Heap, l)) <= alloc

\* A list that was changed at its head and in its middle, traversed to its
\* end.
C19_Witness ==
  /\ raised = "none"
  /\ Len(Iter(Heap, Callee)) = 3
  /\ head[Callee] = 2
  /\ next_node[Iter(Heap, Callee)[3]] = None
  /\ Iter(Heap, Callee)[3] # 3

====
